---- MODULE Spec2Model ----
(***************************************************************************)
(* Visa-application workflow of the Arraji API: the route handlers that    *)
(* read and write Application, Payment, BiometricAppointment and           *)
(* Notification rows through Sequelize models on a PostgreSQL store.       *)
(*                                                                         *)
(* One action per route handler (the whole handler, every store call it    *)
(* makes, up to its response).  POST /applications is split at its single  *)
(* await (the INSERT) so that two creations can overlap.  The store        *)
(* rejects what the declared column types reject: a value outside an ENUM  *)
(* column, a NULL in an allowNull:false column, a duplicate in a unique    *)
(* column.  A handler that throws after an earlier write keeps that write  *)
(* (no transaction wraps a handler).                                       *)
(***************************************************************************)
EXTENDS Integers, Sequences, FiniteSets, Bags, TLC

(* ------------------------------ bounds -------------------------------- *)
MaxApps == 2        \* Application rows
MaxClock == 0       \* Date.now() / new Date() ranges over 0..MaxClock
MaxRand == 1        \* Math.floor(Math.random()*1000) ranges over 0..MaxRand
MaxNotifs == 4      \* Notification rows
MaxPending == 2     \* POST /applications requests awaiting their INSERT
MaxDocs == 2        \* Document rows

(* ------------------------ program constants --------------------------- *)
Null == -1          \* a NULL column / an absent body field
NullId == ""        \* a NULL uuid column
DefaultProcessingFee == 120
DefaultBiometricsFee == 50
DefaultServiceFee == 30
DefaultCourierFee == 25
DefaultTotal == 225
DeadlineDays == 3

(* ------------------------------ users --------------------------------- *)
\* ids of the rows of the users table
Users == {"u1", "u2", "of", "ad", "ad2"}

\* User.role (enum_users_role)
Roles == {"user", "admin", "officer"}

\* The users table as seeded: two applicants, an officer, an admin, and a
\* second admin whose account is deactivated.
InitialUsers ==
  [u \in Users |->
     [role |-> CASE u \in {"ad", "ad2"} -> "admin" [] u = "of" -> "officer"
                 [] OTHER -> "user",
      isActive |-> u # "ad2"]]

(* ------------------------------ enums --------------------------------- *)
\* Application.status as declared on the model, and the list the admin
\* route validates against.
VALID_STATUSES ==
  {"draft", "submitted", "under_review", "documents_required",
   "biometrics_scheduled", "biometrics_completed", "approved", "rejected",
   "completed", "issued"}

VALID_APPLICATION_STATUSES == VALID_STATUSES

\* enum_applications_status in the database.  A database built by
\* sequelize.sync({alter: true}) (development) carries the model's ten
\* values; one built by the migrations (production) also carries
\* 'cost_provided', added by the cost-columns migration.
DbStatusEnum(sch) ==
  IF sch = "migrated" THEN VALID_STATUSES \cup {"cost_provided"}
  ELSE VALID_STATUSES

\* Notification.type (enum_notifications_type).
NotificationTypes ==
  {"application_status_update", "document_request", "payment_reminder",
   "biometrics_scheduled", "biometrics_reminder", "application_approved",
   "application_rejected", "document_approved", "document_rejected",
   "payment_completed", "general_announcement", "system_notification"}

VisaTypes ==
  {"tourist", "business", "student", "work", "transit", "family", "diplomatic"}

(* ------------------------------ state --------------------------------- *)
VARIABLES
  users,          \* users table: id -> [role, isActive]
  schema,         \* how the database was built: "synced" or "migrated"
  applications,   \* applications table: a sequence of rows, id = index
  payments,       \* payments table
  appointments,   \* biometric_appointments table
  notifications,  \* notifications table: a bag of rows
  documents,      \* documents table
  pending,        \* POST /applications requests between validation and INSERT
  inflight,       \* admin status sets between their awaits
  resp            \* the response to the request handled last

store == <<applications, payments, appointments, notifications, documents>>
vars == <<users, schema, applications, payments, appointments, notifications,
          documents, pending, inflight, resp>>

Exists(a) == a \in DOMAIN applications

\* req.user.role
role(u) == users[u].role

\* Every admin row, active or not.
AllAdmins == {u \in Users : users[u].role = "admin"}

\* User.findAll({ where: { role: 'admin', isActive: true } })
ActiveAdmins == {u \in Users : users[u].role = "admin" /\ users[u].isActive}

(* --------------------------- error handling --------------------------- *)
\* An error handler that answers every store error 400.
StatusCodeStoreErrors400(err) ==
  CASE err = "none"          -> 200
    [] err = "created"       -> 201
    [] err = "unauthenticated" -> 401
    [] err = "forbidden"     -> 403
    [] err = "not_found"     -> 404
    [] OTHER                 -> 400

\* errorHandler: AppError keeps its statusCode; SequelizeValidationError and
\* SequelizeUniqueConstraintError become 400; anything else (a
\* SequelizeDatabaseError) is answered 500.
StatusCode(err) ==
  CASE err = "none"          -> 200
    [] err = "created"       -> 201
    [] err = "validation"    -> 400
    [] err = "bad_state"     -> 400
    [] err = "unauthenticated" -> 401
    [] err = "forbidden"     -> 403
    [] err = "not_found"     -> 404
    [] err = "notnull"       -> 400
    [] err = "duplicate"     -> 400
    [] OTHER                 -> 500   \* "db_error", "notify_error"

\* The request handled last and its response (res.json(...) / next(error)).
\* app and arg are what the handler had read of the request when it answered
\* (0 and <<>> for what it had not); created: the Notification rows the
\* request inserted, in order.
Response(op, u, a, arg, err, created) ==
  [op |-> op, caller |-> u, app |-> a, arg |-> arg, err |-> err,
   code |-> StatusCode(err), created |-> created]

NoResponse == Response("none", "u1", 0, <<>>, "none", <<>>)

\* protect: the user the token names is read, and must be active.
Authenticated(u) == users[u].isActive

\* protect's answer to a token whose user is deactivated.
Unauthenticated(op, u) ==
  /\ resp' = Response(op, u, 0, <<>>, "unauthenticated", <<>>)
  /\ UNCHANGED <<inflight, documents, users, schema, applications, payments, appointments,
                 notifications, pending>>

(* ------------------------------ store --------------------------------- *)
\* values laid over a row: instance.set(values) keeps only the keys that are
\* attributes of the model.
Overlay(row, values) ==
  [f \in DOMAIN row |-> IF f \in DOMAIN values THEN values[f] ELSE row[f]]

\* `VISA-${Date.now()}-${Math.floor(Math.random() * 1000)}`: the two numbers
\* are recoverable from the string, so a pair stands for it.
ApplicationNumber(ts, r) == <<ts, r>>

\* Column defaults of a new Application row.
NewApplication ==
  [userId |-> "u1", applicationNumber |-> ApplicationNumber(0, 0),
   visaType |-> "tourist", status |-> "draft",
   processingFee |-> 0, biometricsFee |-> 0, serviceFee |-> 0,
   courierFee |-> 0, totalCost |-> 0,
   paymentDeadline |-> Null, costProvidedAt |-> Null,
   approvedAt |-> Null, rejectedAt |-> Null, reviewedAt |-> Null,
   biometricsDate |-> Null, assignedOfficerId |-> NullId, assignedAt |-> Null]

\* application_number without its unique constraint.
NumberNeverTaken(apps, n, self) == FALSE

\* applicationNumber is declared unique: true.
NumberTaken(apps, n, self) ==
  \E i \in DOMAIN apps : i # self /\ apps[i].applicationNumber = n

\* The status column as a plain string column: any value is stored.
AppWriteErrorNoEnum(apps, sch, row, self) ==
  IF \E i \in DOMAIN apps : i # self /\ apps[i].applicationNumber = row.applicationNumber
  THEN "duplicate" ELSE "none"

\* What INSERT/UPDATE of an applications row answers: the status column is a
\* PostgreSQL enum, application_number carries a unique constraint.
\* self = 0 for an INSERT.
AppWriteError(apps, sch, row, self) ==
  IF row.status \notin DbStatusEnum(sch) THEN "db_error"
  ELSE IF NumberTaken(apps, row.applicationNumber, self) THEN "duplicate"
  ELSE "none"

\* What Notification.create answers: type is a PostgreSQL enum.
NotifWriteError(n) ==
  IF n.type \notin NotificationTypes THEN "notify_error" ELSE "none"

Notif(u, a, type, priority) ==
  [userId |-> u, applicationId |-> a, type |-> type, priority |-> priority]

RECURSIVE AddAll(_, _)
AddAll(bag, rows) ==
  IF rows = <<>> THEN bag
  ELSE AddAll(bag (+) SetToBag({Head(rows)}), Tail(rows))

\* Rows of a table, as a sequence, that belong to application a.
RowsOf(table, a) == {i \in DOMAIN table : table[i].applicationId = a}

(* ------------------------------- Init --------------------------------- *)
Init ==
  /\ users = InitialUsers
  /\ schema \in {"synced", "migrated"}
  /\ applications = <<>>
  /\ payments = <<>>
  /\ appointments = <<>>
  /\ notifications = EmptyBag
  /\ documents = <<>>
  /\ pending = EmptyBag
  /\ inflight = EmptyBag
  /\ resp = NoResponse

(* ------------------------ POST /applications -------------------------- *)
\* Request bodies: visaType, and optionally keys that the handler spreads
\* over the fields it has just set (...req.body comes last).
CreateBodies ==
  {[visaType |-> "tourist"],
   [visaType |-> "spaceflight"],
   [visaType |-> "tourist", applicationNumber |-> ApplicationNumber(0, 0)]}

\* Bodies that name the status, the owner, or an applicationNumber the
\* server never generates.
SpreadBodies ==
  {[visaType |-> "tourist", status |-> "approved"],
   [visaType |-> "tourist", status |-> "cancelled"],
   [visaType |-> "tourist", userId |-> "u1"],
   [visaType |-> "tourist", applicationNumber |-> ApplicationNumber(Null, Null)]}

\* The applicationData object the handler builds.
ApplicationData(u, now, r, body) ==
  Overlay([NewApplication EXCEPT !.userId = u,
             !.applicationNumber = ApplicationNumber(now, r),
             !.visaType = body.visaType, !.status = "draft"],
          body)

\* Validation and the construction of applicationData, up to the await.
CreateBegin(u, now, r, body) ==
  IF ~Authenticated(u) THEN Unauthenticated("create", u) ELSE
  IF body.visaType \notin VisaTypes
  THEN /\ resp' = Response("create", u, 0, <<>>, "validation", <<>>)
       /\ UNCHANGED <<inflight, users, schema, store, pending>>
  ELSE /\ BagCardinality(pending) < MaxPending
       /\ pending' = pending (+)
            SetToBag({[caller |-> u, data |-> ApplicationData(u, now, r, body)]})
       /\ UNCHANGED <<inflight, users, schema, store, resp>>

\* await Application.create(applicationData), and the response.
CreateInsert(p) ==
  /\ BagIn(p, pending)
  /\ pending' = pending (-) SetToBag({p})
  /\ LET err == AppWriteError(applications, schema, p.data, 0) IN
       IF err # "none"
       THEN /\ resp' = Response("create", p.caller, 0, <<>>, err, <<>>)
            /\ UNCHANGED <<inflight, users, schema, store>>
       ELSE /\ Len(applications) < MaxApps
            /\ applications' = Append(applications, p.data)
            /\ resp' = Response("create", p.caller, Len(applications) + 1, <<>>,
                                "created", <<>>)
            /\ UNCHANGED <<inflight, documents, users, schema, payments, appointments, notifications>>

(* ----------------------- PUT /applications/:id ------------------------ *)
\* Request bodies of application.update(req.body).
UpdateBodies ==
  {<<>>,
   [status |-> "approved"],
   [status |-> "cancelled"]}

\* Bodies that name the application number.
RenumberBodies == {[applicationNumber |-> ApplicationNumber(0, 0)]}

\* The checks without the draft-or-staff test.
UpdateCheckNoState(u, a) ==
  IF ~Exists(a) THEN "not_found"
  ELSE IF applications[a].userId # u THEN "forbidden"
  ELSE "none"

\* The handler's checks, in order; "none" when it goes on to the update.
UpdateCheck(u, a) ==
  IF ~Exists(a) THEN "not_found"
  ELSE IF applications[a].userId # u THEN "forbidden"
  ELSE IF applications[a].status # "draft" /\ role(u) \notin {"admin", "officer"}
  THEN "bad_state"
  ELSE "none"

Update(u, a, body) ==
  IF ~Authenticated(u) THEN Unauthenticated("update", u) ELSE
  LET chk == UpdateCheck(u, a) IN
  IF chk # "none"
  THEN /\ resp' = Response("update", u, a, <<>>, chk, <<>>)
       /\ UNCHANGED <<inflight, users, schema, store, pending>>
  ELSE LET row == Overlay(applications[a], body)
           err == AppWriteError(applications, schema, row, a) IN
       /\ resp' = Response("update", u, a, <<>>, err, <<>>)
       /\ applications' = IF err = "none"
                          THEN [applications EXCEPT ![a] = row]
                          ELSE applications
       /\ UNCHANGED <<inflight, documents, users, schema, payments, appointments, notifications,
                      pending>>

(* -------------------- PUT /applications/:id/submit -------------------- *)
\* The submit checks without the ownership test.
SubmitCheckNoOwner(u, a) ==
  IF ~Exists(a) THEN "not_found"
  ELSE IF applications[a].status # "draft" THEN "bad_state"
  ELSE "none"

SubmitCheck(u, a) ==
  IF ~Exists(a) THEN "not_found"
  ELSE IF applications[a].userId # u THEN "forbidden"
  ELSE IF applications[a].status # "draft" THEN "bad_state"
  ELSE "none"

\* One notification per active admin, created in a loop after the update.
SubmitNotifs(a) ==
  LET admins == ActiveAdmins
      RECURSIVE Rows(_)
      Rows(S) == IF S = {} THEN <<>>
                 ELSE LET x == CHOOSE y \in S : TRUE
                      IN <<Notif(x, a, "application_status_update", "high")>>
                         \o Rows(S \ {x})
  IN Rows(admins)

Submit(u, a) ==
  IF ~Authenticated(u) THEN Unauthenticated("submit", u) ELSE
  LET chk == SubmitCheck(u, a) IN
  IF chk # "none"
  THEN /\ resp' = Response("submit", u, a, <<>>, chk, <<>>)
       /\ UNCHANGED <<inflight, users, schema, store, pending>>
  ELSE LET row == Overlay(applications[a], [status |-> "submitted"])
           err == AppWriteError(applications, schema, row, a)
           rows == SubmitNotifs(a) IN
       IF err # "none"
       THEN /\ resp' = Response("submit", u, a, <<>>, err, <<>>)
            /\ UNCHANGED <<inflight, users, schema, store, pending>>
       ELSE /\ BagCardinality(notifications) + Len(rows) <= MaxNotifs
            /\ applications' = [applications EXCEPT ![a] = row]
            /\ notifications' = AddAll(notifications, rows)
            /\ resp' = Response("submit", u, a, <<>>, "none", rows)
            /\ UNCHANGED <<inflight, documents, users, schema, payments, appointments, pending>>

(* -------------------- PUT /applications/:id/cancel -------------------- *)
\* The cancel checks with the status test ahead of the ownership test.
CancelCheckStateFirst(u, a) ==
  IF ~Exists(a) THEN "not_found"
  ELSE IF applications[a].status \in {"completed", "approved", "rejected"}
  THEN "bad_state"
  ELSE IF applications[a].userId # u /\ role(u) # "admin" THEN "forbidden"
  ELSE "none"

CancelCheck(u, a) ==
  IF ~Exists(a) THEN "not_found"
  ELSE IF applications[a].userId # u /\ role(u) # "admin" THEN "forbidden"
  ELSE IF applications[a].status \in {"completed", "approved", "rejected"}
  THEN "bad_state"
  ELSE "none"

Cancel(u, a) ==
  IF ~Authenticated(u) THEN Unauthenticated("cancel", u) ELSE
  LET chk == CancelCheck(u, a) IN
  IF chk # "none"
  THEN /\ resp' = Response("cancel", u, a, <<>>, chk, <<>>)
       /\ UNCHANGED <<inflight, users, schema, store, pending>>
  ELSE LET row == Overlay(applications[a], [status |-> "cancelled"])
           err == AppWriteError(applications, schema, row, a) IN
       /\ resp' = Response("cancel", u, a, <<>>, err, <<>>)
       /\ applications' = IF err = "none"
                          THEN [applications EXCEPT ![a] = row]
                          ELSE applications
       /\ UNCHANGED <<inflight, documents, users, schema, payments, appointments, notifications,
                      pending>>

(* ---------------- PUT /admin/applications/:id/status ------------------ *)
\* Notification.create calls made one after the other: the rows inserted
\* before the first one the store rejects, and that rejection.
RECURSIVE Inserted(_)
Inserted(rows) ==
  IF rows = <<>> \/ NotifWriteError(Head(rows)) # "none" THEN <<>>
  ELSE <<Head(rows)>> \o Inserted(Tail(rows))

InsertError(rows) ==
  IF \E i \in DOMAIN rows : NotifWriteError(rows[i]) # "none"
  THEN "notify_error" ELSE "none"

\* Status values offered to the route: the ten it accepts and one it rejects.
AdminStatusInputs == VALID_APPLICATION_STATUSES \cup {"cancelled"}

\* router.use(authorize('admin')), then the validators, then findByPk.
AdminStatusCheck(u, a, status) ==
  IF role(u) # "admin" THEN "forbidden"
  ELSE IF status \notin VALID_APPLICATION_STATUSES THEN "validation"
  ELSE IF ~Exists(a) THEN "not_found"
  ELSE "none"

\* An updateData that carries nothing.
AdminStatusDataEmpty(now, status) == <<>>

\* updateData: status, and a timestamp under the key reviewed_at,
\* approved_at, rejected_at or biometrics_date.  (These are column names; the
\* attributes are reviewedAt, ..., so update(), through Overlay, drops them.)
AdminStatusData(now, status) ==
  [status |-> status]
  @@ (IF status = "under_review" THEN [reviewed_at |-> now] ELSE <<>>)
  @@ (IF status = "approved" THEN [approved_at |-> now] ELSE <<>>)
  @@ (IF status = "rejected" THEN [rejected_at |-> now] ELSE <<>>)
  @@ (IF status = "biometrics_scheduled" THEN [biometrics_date |-> now] ELSE <<>>)

\* The status notification, then the farewell one for completed / issued.
\* (oldStatus, which the handler reads before the update and hands to the
\* audit log, is kept in the response's arg.)
AdminStatusNotifs(a, status) ==
  LET owner == applications[a].userId IN
  <<Notif(owner, a, "application_status_update", "medium")>>
  \o (IF status \in {"completed", "issued"}
      THEN <<Notif(owner, a, "farewell", "high")>> ELSE <<>>)

AdminSetStatus(u, now, a, status) ==
  IF ~Authenticated(u) THEN Unauthenticated("adminStatus", u) ELSE
  LET chk == AdminStatusCheck(u, a, status) IN
  IF chk # "none"
  THEN /\ resp' = Response("adminStatus", u,
                           IF chk = "not_found" THEN a ELSE 0,
                           IF chk = "forbidden" THEN <<>>
                           ELSE [status |-> status],
                           chk, <<>>)
       /\ UNCHANGED <<inflight, users, schema, store, pending>>
  ELSE LET row == Overlay(applications[a], AdminStatusData(now, status))
           err == AppWriteError(applications, schema, row, a)
           rows == AdminStatusNotifs(a, status) IN
       IF err # "none"
       THEN /\ resp' = Response("adminStatus", u, a, [status |-> status], err, <<>>)
            /\ UNCHANGED <<inflight, users, schema, store, pending>>
       ELSE /\ BagCardinality(notifications) + Len(Inserted(rows)) <= MaxNotifs
            /\ applications' = [applications EXCEPT ![a] = row]
            /\ notifications' = AddAll(notifications, Inserted(rows))
            /\ resp' = Response("adminStatus", u, a,
                                [status |-> status,
                                 oldStatus |-> applications[a].status],
                                InsertError(rows), Inserted(rows))
            /\ UNCHANGED <<inflight, documents, users, schema, payments, appointments, pending>>

(* ------- PUT /admin/applications/:id/status, await by await ----------- *)
\* The same handler as a request in flight: [caller, app, status, old, pc],
\* old being the status of the instance findByPk returned.  It is read
\* (checks and findByPk), then written (application.update), then notified
\* (the Notification.create calls and the response).

\* Up to the end of findByPk.
AdminStatusRead(u, a, status) ==
  IF ~Authenticated(u) THEN Unauthenticated("adminStatus", u) ELSE
  LET chk == AdminStatusCheck(u, a, status) IN
  IF chk # "none"
  THEN /\ resp' = Response("adminStatus", u,
                           IF chk = "not_found" THEN a ELSE 0,
                           IF chk = "forbidden" THEN <<>>
                           ELSE [status |-> status],
                           chk, <<>>)
       /\ UNCHANGED <<inflight, users, schema, store, pending>>
  ELSE /\ BagCardinality(inflight) < MaxPending
       /\ inflight' = inflight (+)
            SetToBag({[caller |-> u, app |-> a, status |-> status,
                       old |-> applications[a].status, pc |-> "write"]})
       /\ UNCHANGED <<users, schema, store, pending, resp>>

\* await application.update(updateData): the UPDATE carries the attributes
\* whose value differs from the instance's, so none is sent when the target
\* is the status that was read.
AdminStatusWrite(p, now) ==
  /\ BagIn(p, inflight)
  /\ p.pc = "write"
  /\ LET a == p.app
         row == IF p.status = p.old THEN applications[a]
                ELSE Overlay(applications[a], AdminStatusData(now, p.status))
         err == AppWriteError(applications, schema, row, a) IN
     IF err # "none"
     THEN /\ inflight' = inflight (-) SetToBag({p})
          /\ resp' = Response("adminStatus", p.caller, a, [status |-> p.status],
                              err, <<>>)
          /\ UNCHANGED <<users, schema, store, pending>>
     ELSE /\ applications' = [applications EXCEPT ![a] = row]
          /\ inflight' = (inflight (-) SetToBag({p}))
                         (+) SetToBag({[p EXCEPT !.pc = "notify"]})
          /\ UNCHANGED <<users, schema, payments, appointments, notifications,
                         documents, pending, resp>>

\* The Notification.create calls and the response.
AdminStatusNotify(p) ==
  /\ BagIn(p, inflight)
  /\ p.pc = "notify"
  /\ LET rows == AdminStatusNotifs(p.app, p.status) IN
     /\ BagCardinality(notifications) + Len(Inserted(rows)) <= MaxNotifs
     /\ notifications' = AddAll(notifications, Inserted(rows))
     /\ inflight' = inflight (-) SetToBag({p})
     /\ resp' = Response("adminStatus", p.caller, p.app,
                         [status |-> p.status, oldStatus |-> p.old],
                         InsertError(rows), Inserted(rows))
     /\ UNCHANGED <<users, schema, applications, payments, appointments,
                    documents, pending>>

(* ----------------- PUT /admin/application/:id/assign ------------------ *)
\* officerId values a request carries: the officer's id, and the id of no
\* user.
OfficerIds == {"of", "nobody"}

\* The checks without authorize('admin').
AssignCheckNoRole(u, a) ==
  IF ~Exists(a) THEN "not_found" ELSE "none"

\* router.use(authorize('admin')), then findByPk.
AssignCheck(u, a) ==
  IF role(u) # "admin" THEN "forbidden"
  ELSE IF ~Exists(a) THEN "not_found"
  ELSE "none"

\* The values of application.update({...}): assigned_at is a column name
\* (the attribute is assignedAt), so the update drops it.
AssignData(now, officerId) ==
  [assignedOfficerId |-> officerId, assigned_at |-> now]

\* The notification for the officer, when User.findByPk(officerId) finds one.
AssignNotifs(a, officerId) == <<Notif(officerId, a, "assignment", "high")>>

AssignOfficer(u, now, a, officerId) ==
  IF ~Authenticated(u) THEN Unauthenticated("assign", u) ELSE
  LET chk == AssignCheck(u, a) IN
  IF chk # "none"
  THEN /\ resp' = Response("assign", u, IF chk = "forbidden" THEN 0 ELSE a,
                           <<>>, chk, <<>>)
       /\ UNCHANGED <<inflight, users, schema, store, pending>>
  ELSE IF officerId \notin Users
  THEN \* assigned_officer_id references users(id)
       /\ resp' = Response("assign", u, a, [officerId |-> officerId],
                           "db_error", <<>>)
       /\ UNCHANGED <<inflight, users, schema, store, pending>>
  ELSE LET row == Overlay(applications[a], AssignData(now, officerId))
           rows == AssignNotifs(a, officerId) IN
       /\ BagCardinality(notifications) + Len(Inserted(rows)) <= MaxNotifs
       /\ applications' = [applications EXCEPT ![a] = row]
       /\ notifications' = AddAll(notifications, Inserted(rows))
       /\ resp' = Response("assign", u, a, [officerId |-> officerId],
                           InsertError(rows), Inserted(rows))
       /\ UNCHANGED <<inflight, documents, users, schema, payments, appointments, pending>>

(* ---------- POST /admin/application/:id/send-cost-estimation ---------- *)
\* Request bodies: none of the optional fields, or all of them.
ItemizedBody ==
  [processingFee |-> 1, biometricsFee |-> 2, serviceFee |-> 3,
   courierFee |-> 4, total |-> 9, paymentDeadline |-> 7]

CostBodies == {<<>>, ItemizedBody}

\* const { f = default } = req.body
Field(body, f, default) == IF f \in DOMAIN body THEN body[f] ELSE default

\* The checks without the already-sent test.
SendCostCheckNoGuard(u, a) ==
  IF role(u) # "admin" THEN "forbidden"
  ELSE IF ~Exists(a) THEN "not_found"
  ELSE "none"

SendCostCheck(u, a) ==
  IF role(u) # "admin" THEN "forbidden"
  ELSE IF ~Exists(a) THEN "not_found"
  ELSE IF applications[a].status = "cost_provided" THEN "bad_state"
  ELSE "none"

\* The values of the update with the total computed from the four fees.
SendCostDataSummed(now, body) ==
  [status |-> "cost_provided",
   processingFee |-> Field(body, "processingFee", DefaultProcessingFee),
   biometricsFee |-> Field(body, "biometricsFee", DefaultBiometricsFee),
   serviceFee |-> Field(body, "serviceFee", DefaultServiceFee),
   courierFee |-> Field(body, "courierFee", DefaultCourierFee),
   totalCost |-> Field(body, "processingFee", DefaultProcessingFee)
                 + Field(body, "biometricsFee", DefaultBiometricsFee)
                 + Field(body, "serviceFee", DefaultServiceFee)
                 + Field(body, "courierFee", DefaultCourierFee),
   paymentDeadline |-> Field(body, "paymentDeadline", now + DeadlineDays),
   costProvidedAt |-> now]

\* The values of application.update({...}).
SendCostData(now, body) ==
  [status |-> "cost_provided",
   processingFee |-> Field(body, "processingFee", DefaultProcessingFee),
   biometricsFee |-> Field(body, "biometricsFee", DefaultBiometricsFee),
   serviceFee |-> Field(body, "serviceFee", DefaultServiceFee),
   courierFee |-> Field(body, "courierFee", DefaultCourierFee),
   totalCost |-> Field(body, "total", DefaultTotal),
   paymentDeadline |-> Field(body, "paymentDeadline", now + DeadlineDays),
   costProvidedAt |-> now]

SendCostNotifs(a) == <<Notif(applications[a].userId, a, "cost", "high")>>

SendCostEstimation(u, now, a, body) ==
  IF ~Authenticated(u) THEN Unauthenticated("sendCost", u) ELSE
  LET chk == SendCostCheck(u, a) IN
  IF chk # "none"
  THEN /\ resp' = Response("sendCost", u,
                           IF chk = "forbidden" THEN 0 ELSE a,
                           IF chk = "forbidden" THEN <<>> ELSE body,
                           chk, <<>>)
       /\ UNCHANGED <<inflight, users, schema, store, pending>>
  ELSE LET row == Overlay(applications[a], SendCostData(now, body))
           err == AppWriteError(applications, schema, row, a)
           rows == SendCostNotifs(a) IN
       IF err # "none"
       THEN /\ resp' = Response("sendCost", u, a, body, err, <<>>)
            /\ UNCHANGED <<inflight, users, schema, store, pending>>
       ELSE /\ BagCardinality(notifications) + Len(Inserted(rows)) <= MaxNotifs
            /\ applications' = [applications EXCEPT ![a] = row]
            /\ notifications' = AddAll(notifications, Inserted(rows))
            /\ resp' = Response("sendCost", u, a, body, InsertError(rows),
                                Inserted(rows))
            /\ UNCHANGED <<inflight, documents, users, schema, payments, appointments, pending>>

(* -------------------------- POST /biometrics -------------------------- *)
\* A create() fails validation when an allowNull: false attribute without a
\* default is not among the values given.
NotNullError(required, given) ==
  IF required \subseteq given THEN "none" ELSE "notnull"

\* BiometricAppointment: the attributes declared allowNull: false, and the
\* keys the route passes to create().
AppointmentRequired ==
  {"userId", "appointmentDate", "appointmentTime", "location"}

AppointmentGiven ==
  {"applicationId", "userId", "appointmentDate", "location", "status",
   "notes", "scheduledBy"}

\* BiometricAppointment.status (enum_biometric_appointments_status).
AppointmentStatuses ==
  {"scheduled", "confirmed", "completed", "cancelled", "no_show"}

ScheduleCheck(u, a) ==
  IF role(u) \notin {"admin", "officer"} THEN "forbidden"
  ELSE IF ~Exists(a) THEN "not_found"
  ELSE IF RowsOf(appointments, a) # {} THEN "bad_state"
  ELSE "none"

ScheduleNotifs(a) ==
  <<Notif(applications[a].userId, a, "biometric_scheduled", "high")>>

ScheduleBiometrics(u, a) ==
  IF ~Authenticated(u) THEN Unauthenticated("schedule", u) ELSE
  LET chk == ScheduleCheck(u, a)
      cerr == NotNullError(AppointmentRequired, AppointmentGiven) IN
  IF chk # "none" \/ cerr # "none"
  THEN /\ resp' = Response("schedule", u,
                           IF chk = "forbidden" THEN 0 ELSE a, <<>>,
                           IF chk # "none" THEN chk ELSE cerr, <<>>)
       /\ UNCHANGED <<inflight, users, schema, store, pending>>
  ELSE LET appt == [applicationId |-> a, userId |-> applications[a].userId,
                    status |-> "scheduled"]
           row == Overlay(applications[a], [status |-> "biometrics_scheduled"])
           err == AppWriteError(applications, schema, row, a)
           rows == IF err = "none" THEN ScheduleNotifs(a) ELSE <<>> IN
       /\ BagCardinality(notifications) + Len(Inserted(rows)) <= MaxNotifs
       /\ appointments' = Append(appointments, appt)
       /\ applications' = IF err = "none"
                          THEN [applications EXCEPT ![a] = row]
                          ELSE applications
       /\ notifications' = AddAll(notifications, Inserted(rows))
       /\ resp' = Response("schedule", u, a, <<>>,
                           IF err # "none" THEN err ELSE InsertError(rows),
                           Inserted(rows))
       /\ UNCHANGED <<inflight, documents, users, schema, payments, pending>>

(* ---------------------- PUT /biometrics/:id/status -------------------- *)
\* body('status').isIn([...])
BioStatusInputs ==
  {"scheduled", "completed", "cancelled", "rescheduled", "no_show"}

BioStatusCheck(u, id) ==
  IF role(u) \notin {"admin", "officer"} THEN "forbidden"
  ELSE IF id \notin DOMAIN appointments THEN "not_found"
  ELSE "none"

\* The status the cascade writes to the linked application, "" for none.
BioCascade(status) ==
  CASE status = "completed" -> "biometrics_completed"
    [] status = "cancelled" -> "documents_requested"
    [] OTHER -> ""

BioStatusUpdate(u, id, status) ==
  IF ~Authenticated(u) THEN Unauthenticated("bioStatus", u) ELSE
  LET chk == BioStatusCheck(u, id) IN
  IF chk # "none"
  THEN /\ resp' = Response("bioStatus", u, 0,
                           IF chk = "forbidden" THEN <<>>
                           ELSE [id |-> id, status |-> status],
                           chk, <<>>)
       /\ UNCHANGED <<inflight, users, schema, store, pending>>
  ELSE LET a == appointments[id].applicationId
           aerr == IF status \in AppointmentStatuses THEN "none" ELSE "db_error"
           cascade == aerr = "none" /\ Exists(a) /\ BioCascade(status) # ""
           row == IF cascade
                  THEN Overlay(applications[a], [status |-> BioCascade(status)])
                  ELSE NewApplication
           err == IF cascade
                  THEN AppWriteError(applications, schema, row, a)
                  ELSE aerr IN
       /\ appointments' = IF aerr = "none"
                          THEN [appointments EXCEPT ![id].status = status]
                          ELSE appointments
       /\ applications' = IF cascade /\ err = "none"
                          THEN [applications EXCEPT ![a] = row]
                          ELSE applications
       /\ resp' = Response("bioStatus", u, a, [id |-> id, status |-> status],
                           err, <<>>)
       /\ UNCHANGED <<inflight, documents, users, schema, payments, notifications, pending>>

(* --------------------------- POST /payments --------------------------- *)
\* Payment: the attributes declared allowNull: false, and the keys the route
\* passes to create().
PaymentRequired == {"userId", "amount", "paymentMethod", "paymentType"}

\* The keys of a create() call that also carries paymentType.
PaymentGivenWithType ==
  {"applicationId", "userId", "amount", "currency", "paymentMethod", "status",
   "description", "transactionId", "paymentType"}

PaymentGiven ==
  {"applicationId", "userId", "amount", "currency", "paymentMethod", "status",
   "description", "transactionId"}

\* Application.findOne({ where: { id, userId: req.user.id } }), then the
\* existence check on payments.
PaymentCheck(u, a) ==
  IF ~Exists(a) \/ applications[a].userId # u THEN "not_found"
  ELSE IF RowsOf(payments, a) # {} THEN "bad_state"
  ELSE "none"

CreatePayment(u, a) ==
  IF ~Authenticated(u) THEN Unauthenticated("payment", u) ELSE
  LET chk == PaymentCheck(u, a)
      cerr == NotNullError(PaymentRequired, PaymentGiven) IN
  IF chk # "none" \/ cerr # "none"
  THEN /\ resp' = Response("payment", u, a, <<>>,
                           IF chk # "none" THEN chk ELSE cerr, <<>>)
       /\ UNCHANGED <<inflight, users, schema, store, pending>>
  ELSE /\ payments' = Append(payments,
                        [applicationId |-> a, userId |-> u, status |-> "pending"])
       /\ resp' = Response("payment", u, a, <<>>, "created", <<>>)
       /\ UNCHANGED <<inflight, documents, users, schema, applications, appointments, notifications,
                      pending>>

\* POST /payments await by await: the two findOne calls of one request, and
\* its Payment.create, are separate steps, and requests interleave between
\* them. A request past its checks is in flight with pc "create".
PaymentBegin(u, a) ==
  IF ~Authenticated(u) THEN Unauthenticated("payment", u) ELSE
  LET chk == PaymentCheck(u, a) IN
  IF chk # "none"
  THEN /\ resp' = Response("payment", u, a, <<>>, chk, <<>>)
       /\ UNCHANGED <<inflight, users, schema, store, pending>>
  ELSE /\ BagCardinality(inflight) < MaxPending
       /\ inflight' = inflight (+)
            SetToBag({[caller |-> u, app |-> a, pc |-> "create"]})
       /\ UNCHANGED <<users, schema, store, pending, resp>>

\* await Payment.create({...}) and the response.
PaymentInsert(p) ==
  /\ BagIn(p, inflight)
  /\ p.pc = "create"
  /\ inflight' = inflight (-) SetToBag({p})
  /\ LET cerr == NotNullError(PaymentRequired, PaymentGiven) IN
     IF cerr # "none"
     THEN /\ resp' = Response("payment", p.caller, p.app, <<>>, cerr, <<>>)
          /\ UNCHANGED <<users, schema, store, pending>>
     ELSE /\ payments' = Append(payments,
                 [applicationId |-> p.app, userId |-> p.caller,
                  status |-> "pending"])
          /\ resp' = Response("payment", p.caller, p.app, <<>>, "created", <<>>)
          /\ UNCHANGED <<documents, users, schema, applications, appointments,
                         notifications, pending>>

(* ---------------------- PUT /payments/:id/status ---------------------- *)
\* Payment.status (enum_payments_status).
PaymentStatuses == {"pending", "completed", "failed", "refunded"}

\* Status values offered to the route, both among those its validator admits.
PaymentStatusInputs == {"completed", "processing"}

PaymentStatusCheck(u, id) ==
  IF role(u) \notin {"admin", "officer"} THEN "forbidden"
  ELSE IF id \notin DOMAIN payments THEN "not_found"
  ELSE "none"

PaymentStatusUpdate(u, id, status) ==
  IF ~Authenticated(u) THEN Unauthenticated("payStatus", u) ELSE
  LET chk == PaymentStatusCheck(u, id) IN
  IF chk # "none"
  THEN /\ resp' = Response("payStatus", u, 0,
                           IF chk = "forbidden" THEN <<>>
                           ELSE [id |-> id, status |-> status],
                           chk, <<>>)
       /\ UNCHANGED <<inflight, users, schema, store, pending>>
  ELSE LET a == payments[id].applicationId
           perr == IF status \in PaymentStatuses THEN "none" ELSE "db_error"
           cascade == /\ perr = "none"
                      /\ status = "completed"
                      /\ Exists(a)
                      /\ applications[a].status = "payment_pending"
           row == IF cascade
                  THEN Overlay(applications[a], [status |-> "payment_completed"])
                  ELSE NewApplication
           err == IF cascade
                  THEN AppWriteError(applications, schema, row, a)
                  ELSE perr IN
       /\ payments' = IF perr = "none"
                      THEN [payments EXCEPT ![id].status = status]
                      ELSE payments
       /\ applications' = IF cascade /\ err = "none"
                          THEN [applications EXCEPT ![a] = row]
                          ELSE applications
       /\ resp' = Response("payStatus", u, a, [id |-> id, status |-> status],
                           err, <<>>)
       /\ UNCHANGED <<inflight, documents, users, schema, appointments, notifications, pending>>

(* -------------------------- POST /documents --------------------------- *)
\* Document.status (enum_documents_status).
DocumentStatuses == {"pending", "approved", "rejected"}

\* Application.findOne({ where: { id: applicationId, userId: req.user.id } })
UploadCheck(u, a) ==
  IF ~Exists(a) \/ applications[a].userId # u THEN "not_found" ELSE "none"

\* An upload that carries a file and a valid documentType, for application a.
UploadDocument(u, a) ==
  IF ~Authenticated(u) THEN Unauthenticated("upload", u) ELSE
  LET chk == UploadCheck(u, a) IN
  IF chk # "none"
  THEN /\ resp' = Response("upload", u, a, <<>>, chk, <<>>)
       /\ UNCHANGED <<inflight, users, schema, store, pending>>
  ELSE /\ Len(documents) < MaxDocs
       /\ documents' = Append(documents,
                          [userId |-> u, applicationId |-> a, status |-> "pending"])
       /\ resp' = Response("upload", u, a, <<>>, "created", <<>>)
       /\ UNCHANGED <<inflight, users, schema, applications, payments, appointments,
                      notifications, pending>>

(* ---------------------- PUT /documents/:id/status --------------------- *)
\* body('status').isIn([...]) of the documents route, and one value it
\* refuses.
DocStatusValid == {"pending", "approved", "rejected", "expired"}
DocStatusInputs == DocStatusValid \cup {"verified"}

\* router.use(protect) is the only middleware; then the validators, then
\* findByPk.
DocStatusCheck(u, id, status) ==
  IF status \notin DocStatusValid THEN "validation"
  ELSE IF id \notin DOMAIN documents THEN "not_found"
  ELSE "none"

\* type: status === 'verified' ? 'document_approved' : 'document_rejected'
DocStatusNotifs(id, status) ==
  <<Notif(documents[id].userId, documents[id].applicationId,
          IF status = "verified" THEN "document_approved"
          ELSE "document_rejected", "medium")>>

DocumentStatusUpdate(u, id, status) ==
  IF ~Authenticated(u) THEN Unauthenticated("docStatus", u) ELSE
  LET chk == DocStatusCheck(u, id, status) IN
  IF chk # "none"
  THEN /\ resp' = Response("docStatus", u, 0, [id |-> id, status |-> status],
                           chk, <<>>)
       /\ UNCHANGED <<inflight, users, schema, store, pending>>
  ELSE IF status \notin DocumentStatuses
  THEN /\ resp' = Response("docStatus", u, 0, [id |-> id, status |-> status],
                           "db_error", <<>>)
       /\ UNCHANGED <<inflight, users, schema, store, pending>>
  ELSE LET rows == DocStatusNotifs(id, status) IN
       /\ BagCardinality(notifications) + Len(Inserted(rows)) <= MaxNotifs
       /\ documents' = [documents EXCEPT ![id].status = status]
       /\ notifications' = AddAll(notifications, Inserted(rows))
       /\ resp' = Response("docStatus", u, 0, [id |-> id, status |-> status],
                           InsertError(rows), Inserted(rows))
       /\ UNCHANGED <<inflight, users, schema, applications, payments, appointments,
                      pending>>

(* ------------------- PUT /admin/documents/:id/status ------------------ *)
VALID_DOCUMENT_STATUSES == {"pending", "approved", "rejected"}

\* Status values offered to the admin route: those it accepts and one it
\* refuses.
AdminDocStatusInputs == VALID_DOCUMENT_STATUSES \cup {"expired"}

\* router.use(authorize('admin')), then the validators, then findByPk.
AdminDocStatusCheck(u, id, status) ==
  IF role(u) # "admin" THEN "forbidden"
  ELSE IF status \notin VALID_DOCUMENT_STATUSES THEN "validation"
  ELSE IF id \notin DOMAIN documents THEN "not_found"
  ELSE "none"

\* document_rejected (high) for rejected, document_approved (medium) for
\* approved, nothing for pending.
AdminDocStatusNotifs(id, status) ==
  LET owner == documents[id].userId
      a == documents[id].applicationId IN
  (IF status = "rejected"
   THEN <<Notif(owner, a, "document_rejected", "high")>> ELSE <<>>)
  \o (IF status = "approved"
      THEN <<Notif(owner, a, "document_approved", "medium")>> ELSE <<>>)

AdminDocumentStatus(u, id, status) ==
  IF ~Authenticated(u) THEN Unauthenticated("adminDocStatus", u) ELSE
  LET chk == AdminDocStatusCheck(u, id, status) IN
  IF chk # "none"
  THEN /\ resp' = Response("adminDocStatus", u, 0,
                           IF chk = "forbidden" THEN <<>>
                           ELSE [id |-> id, status |-> status],
                           chk, <<>>)
       /\ UNCHANGED <<inflight, users, schema, store, pending>>
  ELSE LET rows == AdminDocStatusNotifs(id, status) IN
       /\ BagCardinality(notifications) + Len(Inserted(rows)) <= MaxNotifs
       /\ documents' = [documents EXCEPT ![id].status = status]
       /\ notifications' = AddAll(notifications, Inserted(rows))
       /\ resp' = Response("adminDocStatus", u, 0, [id |-> id, status |-> status],
                           InsertError(rows), Inserted(rows))
       /\ UNCHANGED <<inflight, users, schema, applications, payments, appointments,
                      pending>>

(* ----------------------- PUT /admin/users/:id ------------------------- *)
\* Request bodies: a deactivation, a reactivation, a promotion, and a role
\* the validator refuses.
UserBodies ==
  {[isActive |-> FALSE], [isActive |-> TRUE], [role |-> "admin"],
   [role |-> "superuser"]}

\* ids a request names: an applicant's, the second admin's, and one of no row
UserIds == {"u2", "ad2", "nobody"}

\* router.use(authorize('admin')), then the validators, then findByPk.
UpdateUserCheck(u, id, body) ==
  IF role(u) # "admin" THEN "forbidden"
  ELSE IF "role" \in DOMAIN body /\ body.role \notin Roles THEN "validation"
  ELSE IF id \notin Users THEN "not_found"
  ELSE "none"

UpdateUser(u, id, body) ==
  IF ~Authenticated(u) THEN Unauthenticated("updateUser", u) ELSE
  LET chk == UpdateUserCheck(u, id, body) IN
  /\ resp' = Response("updateUser", u, 0,
                      IF chk = "forbidden" THEN <<>> ELSE [id |-> id, body |-> body],
                      chk, <<>>)
  /\ users' = IF chk = "none"
              THEN [users EXCEPT ![id] = Overlay(@, body)]
              ELSE users
  /\ UNCHANGED <<inflight, schema, store, pending>>

(* ------------------------------- Next --------------------------------- *)
\* the users requests come from
Callers == {"u1", "u2", "of", "ad"}
\* ids a request names: those of the rows there are, and one of no row
Targets == 1..(Len(applications) + 1)
AppointmentIds == 1..(Len(appointments) + 1)
DocumentIds == 1..(Len(documents) + 1)
PaymentIds == 1..(Len(payments) + 1)
Times == 0..MaxClock
Rands == 0..MaxRand

\* POST /applications by a caller in U with a body in B: a request arrives,
\* or the INSERT of one that has arrived is answered.
Create(U, B) ==
  \/ \E u \in U, now \in Times, r \in Rands, body \in B :
       CreateBegin(u, now, r, body)
  \/ \E p \in BagToSet(pending) : CreateInsert(p)

Next ==
  \/ Create(Callers, CreateBodies \cup SpreadBodies)
  \/ \E u \in Callers, a \in Targets, body \in UpdateBodies \cup RenumberBodies :
       Update(u, a, body)
  \/ \E u \in Callers, a \in Targets : Submit(u, a)
  \/ \E u \in Callers, a \in Targets : Cancel(u, a)
  \/ \E u \in Callers, now \in Times, a \in Targets, s \in AdminStatusInputs :
       AdminSetStatus(u, now, a, s)
  \/ \E u \in Callers, now \in Times, a \in Targets, body \in CostBodies :
       SendCostEstimation(u, now, a, body)
  \/ \E u \in Callers, a \in Targets : ScheduleBiometrics(u, a)
  \/ \E u \in Callers, id \in AppointmentIds, s \in BioStatusInputs :
       BioStatusUpdate(u, id, s)
  \/ \E u \in Callers, a \in Targets : CreatePayment(u, a)
  \/ \E u \in Callers, id \in PaymentIds, s \in PaymentStatusInputs :
       PaymentStatusUpdate(u, id, s)
  \/ \E u \in Users, id \in UserIds, body \in UserBodies : UpdateUser(u, id, body)
  \/ \E u \in Callers, now \in Times, a \in Targets, o \in OfficerIds :
       AssignOfficer(u, now, a, o)
  \/ \E u \in Callers, a \in Targets : UploadDocument(u, a)
  \/ \E u \in Callers, id \in DocumentIds, s \in DocStatusInputs :
       DocumentStatusUpdate(u, id, s)
  \/ \E u \in Callers, id \in DocumentIds, s \in AdminDocStatusInputs :
       AdminDocumentStatus(u, id, s)

Spec == Init /\ [][Next]_vars

(* ------------------------ creation on its own ------------------------- *)
\* POST /applications and the renumbering PUT /applications/:id, from the
\* empty database, all requests coming from one applicant.
Applicants == {"u1"}

NextCreate ==
  \/ Create(Applicants, CreateBodies)
  \/ \E u \in Applicants, a \in Targets, body \in RenumberBodies : Update(u, a, body)

SpecCreate == Init /\ [][NextCreate]_vars

\* POST /applications by one applicant, with bodies that name more than
\* the visa type.
NextSpread == Create({"u2"}, SpreadBodies)

SpecSpread == Init /\ [][NextSpread]_vars

(* ------------------- the life of one application ---------------------- *)
\* The database after one applicant's POST /applications has been answered.
InitWorkflow ==
  /\ users = InitialUsers
  /\ schema \in {"synced", "migrated"}
  /\ applications = <<ApplicationData("u1", 0, 0, [visaType |-> "tourist"])>>
  /\ payments = <<>>
  /\ appointments = <<>>
  /\ notifications = EmptyBag
  /\ documents = <<>>
  /\ pending = EmptyBag
  /\ inflight = EmptyBag
  /\ resp = Response("create", "u1", 1, <<>>, "created", <<>>)

\* Every handler that writes an application, a payment or an appointment,
\* but POST /applications.
NextWorkflow ==
  \/ \E u \in Callers, a \in Targets, body \in UpdateBodies : Update(u, a, body)
  \/ \E u \in Callers, a \in Targets : Submit(u, a)
  \/ \E u \in Callers, a \in Targets : Cancel(u, a)
  \/ \E u \in Callers, now \in Times, a \in Targets, s \in AdminStatusInputs :
       AdminSetStatus(u, now, a, s)
  \/ \E u \in Callers, now \in Times, a \in Targets, body \in CostBodies :
       SendCostEstimation(u, now, a, body)
  \/ \E u \in Callers, a \in Targets : ScheduleBiometrics(u, a)
  \/ \E u \in Callers, id \in AppointmentIds, s \in BioStatusInputs :
       BioStatusUpdate(u, id, s)
  \/ \E u \in Callers, a \in Targets : CreatePayment(u, a)
  \/ \E u \in Callers, id \in PaymentIds, s \in PaymentStatusInputs :
       PaymentStatusUpdate(u, id, s)

SpecWorkflow == InitWorkflow /\ [][NextWorkflow]_vars

(* ------------------- submissions and the users table ------------------ *)
\* One application, submitted and set back to draft, while admins change
\* the roles and the activity of the users; requests come from every user.
NextUsers ==
  \/ \E u \in Users, id \in UserIds, body \in UserBodies : UpdateUser(u, id, body)
  \/ \E u \in Users, a \in Targets : Submit(u, a)
  \/ \E u \in Users, now \in Times, a \in Targets :
       AdminSetStatus(u, now, a, "draft")

SpecUsers == InitWorkflow /\ [][NextUsers]_vars

(* ------------------------- the admin routes --------------------------- *)
\* The routes mounted under /admin that write an application, called by
\* every user, while admins change the roles and the activity of the users.
NextAdmin ==
  \/ \E u \in Users, id \in UserIds, body \in UserBodies : UpdateUser(u, id, body)
  \/ \E u \in Users, now \in Times, a \in Targets,
        s \in {"under_review", "completed", "cancelled"} :
       AdminSetStatus(u, now, a, s)
  \/ \E u \in Users, now \in Times, a \in Targets, o \in OfficerIds :
       AssignOfficer(u, now, a, o)
  \/ \E u \in Users, now \in Times, a \in Targets, body \in CostBodies :
       SendCostEstimation(u, now, a, body)

SpecAdmin == InitWorkflow /\ [][NextAdmin]_vars

(* --------------------------- the documents ---------------------------- *)
\* Uploads for the one application and reviews of the documents, on both
\* status routes.
NextDocuments ==
  \/ \E u \in Callers, a \in Targets : UploadDocument(u, a)
  \/ \E u \in Callers, id \in DocumentIds, s \in DocStatusInputs :
       DocumentStatusUpdate(u, id, s)
  \/ \E u \in Callers, id \in DocumentIds, s \in AdminDocStatusInputs :
       AdminDocumentStatus(u, id, s)

SpecDocuments == InitWorkflow /\ [][NextDocuments]_vars

(* -------------------- overlapping admin status sets ------------------- *)
\* Admin status sets of the one application, taken await by await, so that
\* two of them overlap.
RaceStatuses == {"under_review", "approved", "completed"}

NextRace ==
  \/ \E u \in {"of", "ad"}, a \in Targets, s \in RaceStatuses :
       AdminStatusRead(u, a, s)
  \/ \E p \in BagToSet(inflight), now \in Times : AdminStatusWrite(p, now)
  \/ \E p \in BagToSet(inflight) : AdminStatusNotify(p)

SpecRace == InitWorkflow /\ [][NextRace]_vars

\* Concurrent POST /payments requests on the stored application and on an
\* id that is not stored, with submit and the payment status route.
NextPayments ==
  \/ \E u \in Callers, a \in Targets : PaymentBegin(u, a)
  \/ \E p \in BagToSet(inflight) : PaymentInsert(p)
  \/ \E u \in Callers, a \in Targets : Submit(u, a)
  \/ \E u \in Callers, id \in PaymentIds, s \in PaymentStatusInputs :
       PaymentStatusUpdate(u, id, s)

SpecPayments == InitWorkflow /\ [][NextPayments]_vars

\* Bodies of PUT /applications/:id that name the fee attributes.
FeeBodies ==
  {[processingFee |-> 1, biometricsFee |-> 2, serviceFee |-> 3,
    courierFee |-> 4, totalCost |-> 9]}

\* The users whose role is user at construction.
RoleUsers == {u \in Callers : InitialUsers[u].role = "user"}

\* Every request a caller with role user can issue on applications: create,
\* update-fields, submit, cancel, create payment, upload document. No admin
\* and no officer acts.
NextApplicant ==
  \/ Create({"u2"}, {[visaType |-> "tourist", status |-> "approved"]})
  \/ \E u \in RoleUsers, a \in Targets, body \in UpdateBodies \cup FeeBodies :
       Update(u, a, body)
  \/ \E u \in RoleUsers, a \in Targets : Submit(u, a)
  \/ \E u \in RoleUsers, a \in Targets : Cancel(u, a)
  \/ \E u \in RoleUsers, a \in Targets : CreatePayment(u, a)
  \/ \E u \in RoleUsers, a \in Targets : UploadDocument(u, a)

SpecApplicant == InitWorkflow /\ [][NextApplicant]_vars

(* ============================ properties ============================== *)
\* The edges of the declared workflow: the chain draft -> submitted ->
\* under_review -> documents_required -> biometrics_scheduled ->
\* biometrics_completed -> approved | rejected -> completed | issued, and
\* cancel from draft and the pre-decision states.
TransitionTable ==
  {<<"draft", "submitted">>, <<"submitted", "under_review">>,
   <<"under_review", "documents_required">>,
   <<"documents_required", "biometrics_scheduled">>,
   <<"biometrics_scheduled", "biometrics_completed">>,
   <<"biometrics_completed", "approved">>,
   <<"biometrics_completed", "rejected">>,
   <<"approved", "completed">>, <<"approved", "issued">>,
   <<"rejected", "completed">>, <<"rejected", "issued">>}
  \cup ({"draft", "submitted", "under_review", "documents_required",
         "biometrics_scheduled", "biometrics_completed"} \X {"cancelled"})

\* The status values the update-fields bodies carry.
BodyStatuses == {b.status : b \in {x \in UpdateBodies : "status" \in DOMAIN x}}

C2_NonOwnerForbidden ==
  [][(/\ resp'.op \in {"submit", "cancel", "update"}
      /\ Exists(resp'.app)
      /\ applications[resp'.app].userId # resp'.caller
      /\ role(resp'.caller) # "admin")
     => /\ resp'.code = 403
        /\ store' = store
    ]_vars

\* Another applicant's submit of a draft has been answered 403, the draft
\* still a draft.
C2_Witness ==
  /\ resp.op = "submit"
  /\ resp.caller = "u2"
  /\ resp.code = 403
  /\ applications[resp.app].userId = "u1"
  /\ applications[resp.app].status = "draft"

NotifsTo(u) ==
  LET rows == {n \in BagToSet(notifications) : n.userId = u}
      RECURSIVE Sum(_)
      Sum(S) == IF S = {} THEN 0
                ELSE LET n == CHOOSE x \in S : TRUE
                     IN CopiesIn(n, notifications) + Sum(S \ {n})
  IN Sum(rows)

\* C4 as stated: once an owner's POST /payments for their application has
\* been answered, that application has exactly one Payment row: the request
\* either created it (201) or met it and was refused as a conflict (400).
C4_Original ==
  (/\ resp.op = "payment"
   /\ Exists(resp.app)
   /\ applications[resp.app].userId = resp.caller)
  => /\ Cardinality(RowsOf(payments, resp.app)) = 1
     /\ resp.err \in {"created", "bad_state"}

\* C5 as stated: once a POST /biometrics by an admin or officer for an
\* existing application has been answered, that application has exactly one
\* BiometricAppointment row: the request either created it or met it and was
\* refused as a conflict (400) that left the application's status alone.
C5_Original ==
  (/\ resp.op = "schedule"
   /\ role(resp.caller) \in {"admin", "officer"}
   /\ Exists(resp.app))
  => /\ Cardinality(RowsOf(appointments, resp.app)) = 1
     /\ resp.err \in {"none", "bad_state"}

\* C6 as stated, for the appointment that POST /biometrics was asked to make:
\* once an admin or officer has requested an appointment for application 1,
\* a PUT /biometrics/1/status by an admin or officer succeeds, and leaves the
\* application biometrics_completed for completed, documents_requested for
\* cancelled, and as it was for scheduled, rescheduled and no_show.
C6_Original ==
  [][(/\ resp.op = "schedule"
      /\ role(resp.caller) \in {"admin", "officer"}
      /\ resp.app = 1
      /\ resp'.op = "bioStatus"
      /\ role(resp'.caller) \in {"admin", "officer"}
      /\ resp'.arg.id = 1)
     => /\ resp'.code = 200
        /\ applications'[1].status =
             CASE resp'.arg.status = "completed" -> "biometrics_completed"
               [] resp'.arg.status = "cancelled" -> "documents_requested"
               [] OTHER -> applications[1].status
    ]_vars

\* C7: a send-cost-estimation by an admin for an application whose status is
\* already cost_provided is answered 400, inserts no notification and leaves
\* every row (the fees, totalCost, paymentDeadline, costProvidedAt) as it was.
C7_SecondCallRejected ==
  [][(/\ resp'.op = "sendCost"
      /\ role(resp'.caller) = "admin"
      /\ Exists(resp'.app)
      /\ applications[resp'.app].status = "cost_provided")
     => /\ resp'.code = 400
        /\ resp'.created = <<>>
        /\ store' = store
    ]_vars

\* The defaults are stored, and a second call carrying other fees has been
\* answered 400.
C7_Witness ==
  /\ resp.op = "sendCost"
  /\ resp.err = "bad_state"
  /\ resp.arg = ItemizedBody
  /\ applications[resp.app].status = "cost_provided"
  /\ applications[resp.app].totalCost = DefaultTotal
  /\ applications[resp.app].processingFee = DefaultProcessingFee

\* A send-cost-estimation that has stored its estimation.
CostStored == resp.op = "sendCost" /\ resp.err \in {"none", "notify_error"}

StatusSet ==
  resp.op = "adminStatus" /\ resp.err \notin {"forbidden", "validation", "not_found"}

\* C9 as stated: an admin status set to completed or issued succeeds and
\* inserts exactly two notifications for the owner, one of type
\* application_status_update and one high-priority farewell; a set to another
\* status inserts the status update only.
C9_Original ==
  StatusSet =>
    LET owner == applications[resp.app].userId
        made == resp.created IN
    /\ resp.code = 200
    /\ \A i \in DOMAIN made : made[i].userId = owner
    /\ Cardinality({i \in DOMAIN made :
                      made[i].type = "application_status_update"}) = 1
    /\ Cardinality({i \in DOMAIN made :
                      /\ made[i].type # "application_status_update"
                      /\ made[i].priority = "high"}) =
         IF resp.arg.status \in {"completed", "issued"} THEN 1 ELSE 0

\* The rows scenario 1 has inserted before its last step: the submit's, for
\* the admin, and the two status updates, for the owner.
ScenarioNotifs ==
  SetToBag({Notif("ad", 1, "application_status_update", "high")})
  (+) SetToBag({Notif("u1", 1, "application_status_update", "medium")})
  (+) SetToBag({Notif("u1", 1, "application_status_update", "medium")})

\* C10 as stated, at the last step of scenario 1: with the application
\* created by u1, submitted, set under_review and just set approved, the
\* admin's status set to completed succeeds, leaves the application completed
\* and leaves four notifications for the owner and no more for the admin.
C10_Original ==
  [][(/\ resp.op = "adminStatus"
      /\ resp.code = 200
      /\ resp.arg.status = "approved"
      /\ resp.arg.oldStatus = "under_review"
      /\ applications[1].userId = "u1"
      /\ applications[1].status = "approved"
      /\ notifications = ScenarioNotifs
      /\ resp'.op = "adminStatus"
      /\ resp'.caller = "ad"
      /\ resp'.app = 1
      /\ resp'.arg.status = "completed")
     => /\ resp'.code = 200
        /\ applications'[1].status = "completed"
        /\ NotifsTo("u1")' = 4
        /\ NotifsTo("ad")' = 1
    ]_vars

\* C11: a request answered 400, 403 or 404 leaves every row of every table
\* as it was: no row is inserted, changed or deleted by it.
C11_ClientErrorsKeepStore ==
  [][resp'.code \in {400, 403, 404} => store' = store]_vars

\* A submit of an application already submitted has been answered 400, the
\* application still submitted and the submit's one notification still alone.
C11_Witness ==
  /\ resp.op = "submit"
  /\ resp.err = "bad_state"
  /\ resp.code = 400
  /\ applications[resp.app].status = "submitted"
  /\ BagCardinality(notifications) = 1

\* Notification rows of application a that submit makes for user v.
SubmitNotif(v, a) == Notif(v, a, "application_status_update", "high")

\* C12: a submit is answered 200 only for the owner of a draft, and always
\* for an authenticated owner of a draft; the application is then submitted
\* and the notifications table has gained exactly one
\* application_status_update row for each user who was an active admin when
\* the request was handled, and no other row.  A submit of an application
\* that is not a draft is refused (400 for its authenticated owner) and
\* inserts no notification.
C12_SubmitRules ==
  [][resp'.op = "submit" =>
       LET a == resp'.app
           u == resp'.caller IN
       /\ resp'.code = 200 =>
            /\ Exists(a)
            /\ applications[a].userId = u
            /\ applications[a].status = "draft"
            /\ applications'[a].status = "submitted"
            /\ \A v \in Users :
                 CopiesIn(SubmitNotif(v, a), notifications')
                 = CopiesIn(SubmitNotif(v, a), notifications)
                   + (IF role(v) = "admin" /\ users[v].isActive THEN 1 ELSE 0)
            /\ BagCardinality(notifications')
               = BagCardinality(notifications)
                 + Cardinality({v \in Users : role(v) = "admin" /\ users[v].isActive})
       /\ (Exists(a) /\ applications[a].userId = u /\ applications[a].status = "draft")
            => resp'.code = 200
       /\ (Exists(a) /\ applications[a].status # "draft") =>
            /\ resp'.code \in {400, 403}
            /\ applications[a].userId = u => resp'.code = 400
            /\ notifications' = notifications
            /\ applications' = applications
    ]_vars

\* A submit has succeeded and made two rows: one for the seeded admin and one
\* for a promoted applicant, none for the admin whose account is deactivated.
C12_Witness ==
  /\ resp.op = "submit"
  /\ resp.code = 200
  /\ Len(resp.created) = 2
  /\ {resp.created[i].userId : i \in DOMAIN resp.created} = {"ad", "u2"}
  /\ role("ad2") = "admin"
  /\ ~users["ad2"].isActive

\* C13 as stated: a cancel of an existing application by its owner or an
\* admin succeeds and leaves the status cancelled when the status was none of
\* completed, approved, rejected; when it was one of them the cancel is
\* answered 400 and the status stays as it was.
C13_Original ==
  [][(/\ resp'.op = "cancel"
      /\ Exists(resp'.app)
      /\ \/ applications[resp'.app].userId = resp'.caller
         \/ role(resp'.caller) = "admin")
     => LET old == applications[resp'.app].status
            new == applications'[resp'.app].status IN
        IF old \in {"completed", "approved", "rejected"}
        THEN resp'.code = 400 /\ new = old
        ELSE resp'.code = 200 /\ new = "cancelled"
    ]_vars

\* The statuses the declared workflow has no edge out of.
TerminalStatuses == {"rejected", "completed", "issued", "cancelled"}

C15_Original ==
  [][(resp'.op = "update" /\ resp'.code = 200)
     => applications'[resp'.app].status = applications[resp'.app].status
    ]_vars

\* C16 as stated: an update-fields of an existing application goes through
\* to the update for the owner of a draft and for every admin or officer,
\* owner or not, whatever the status; it is answered 400 for a role-user
\* owner of a non-draft and 403 for a caller who is neither the owner nor
\* admin or officer.
C16_Original ==
  [][(resp'.op = "update" /\ Exists(resp'.app)) =>
       LET u == resp'.caller
           owner == applications[resp'.app].userId = u
           staff == role(u) \in {"admin", "officer"}
           draft == applications[resp'.app].status = "draft" IN
       /\ ((owner /\ draft) \/ staff) => resp'.err \notin {"forbidden", "bad_state"}
       /\ (owner /\ ~staff /\ ~draft) => resp'.err = "bad_state" /\ resp'.code = 400
       /\ (~owner /\ ~staff) => resp'.err = "forbidden" /\ resp'.code = 403
    ]_vars

\* The status of application a fails the precondition of operation op.
PreconditionFails(op, a) ==
  CASE op = "submit" -> applications[a].status # "draft"
    [] op = "update" -> applications[a].status # "draft"
    [] op = "cancel" ->
         applications[a].status \in {"completed", "approved", "rejected"}
    [] OTHER -> FALSE

\* C17: a submit, cancel or update-fields of an existing application by a
\* caller who is neither its owner nor admin or officer is answered with the
\* 403 authorization error, never the 400 bad-state error, also when the
\* application's status fails the operation's precondition.
C17_AuthorizationFirst ==
  [][(/\ resp'.op \in {"submit", "cancel", "update"}
      /\ Exists(resp'.app)
      /\ applications[resp'.app].userId # resp'.caller
      /\ role(resp'.caller) \notin {"admin", "officer"})
     => /\ resp'.err = "forbidden"
        /\ resp'.code = 403
    ]_vars

\* Another applicant's cancel of an approved application has been answered
\* 403.
C17_Witness ==
  /\ resp.op = "cancel"
  /\ resp.caller = "u2"
  /\ resp.err = "forbidden"
  /\ applications[resp.app].status = "approved"
  /\ PreconditionFails(resp.op, resp.app)

\* The requests to the admin routes that write an application.
AdminOps == {"adminStatus", "assign", "sendCost"}

\* C18: an admin status set, an assign-officer or a send-cost-estimation by
\* an authenticated caller whose role is officer or user is answered 403,
\* changes no field of any application and inserts no notification; a
\* request to one of the three routes changes a row only when its caller's
\* role is admin.
C18_AdminOnly ==
  [][resp'.op \in AdminOps =>
       /\ (Authenticated(resp'.caller) /\ role(resp'.caller) \in {"officer", "user"})
            => /\ resp'.code = 403
               /\ resp'.created = <<>>
               /\ store' = store
       /\ store' # store => role(resp'.caller) = "admin"
    ]_vars

\* The officer's attempt to assign the application to themself has been
\* answered 403, and the application is assigned to nobody.
C18_Witness ==
  /\ resp.op = "assign"
  /\ resp.caller = "of"
  /\ resp.code = 403
  /\ applications[1].assignedOfficerId = NullId
  /\ notifications = EmptyBag

\* The timestamp attribute the admin status set is to stamp for a target.
StampOf(status) ==
  CASE status = "under_review" -> "reviewedAt"
    [] status = "approved" -> "approvedAt"
    [] status = "rejected" -> "rejectedAt"
    [] status = "biometrics_scheduled" -> "biometricsDate"
    [] OTHER -> ""

Stamps == {"reviewedAt", "approvedAt", "rejectedAt", "biometricsDate"}

\* C19 as stated: an admin status set answered 200 whose target is
\* under_review, approved, rejected or biometrics_scheduled leaves the
\* application's reviewedAt, approvedAt, rejectedAt or biometricsDate,
\* respectively, at a time of the clock, and the other three of these
\* attributes as they were.
C19_Original ==
  [][(/\ resp'.op = "adminStatus"
      /\ resp'.code = 200
      /\ StampOf(resp'.arg.status) # "")
     => LET old == applications[resp'.app]
            new == applications'[resp'.app]
            f == StampOf(resp'.arg.status) IN
        /\ new[f] \in Times
        /\ \A g \in Stamps \ {f} : new[g] = old[g]
    ]_vars

\* C20 as stated, for the payment that POST /payments was asked to make:
\* once the owner has requested a payment for application 1, a
\* PUT /payments/1/status by an admin or officer finds that payment, and
\* leaves the application payment_completed when the new payment status is
\* completed and the application was payment_pending, and as it was in
\* every other case.
C20_Original ==
  [][(/\ resp.op = "payment"
      /\ resp.app = 1
      /\ applications[1].userId = resp.caller
      /\ resp'.op = "payStatus"
      /\ role(resp'.caller) \in {"admin", "officer"}
      /\ resp'.arg.id = 1)
     => /\ resp'.code # 404
        /\ applications'[1].status =
             IF /\ resp'.arg.status = "completed"
                /\ applications[1].status = "payment_pending"
             THEN "payment_completed"
             ELSE applications[1].status
    ]_vars

\* The requests to the two document status routes.
DocOps == {"docStatus", "adminDocStatus"}

\* C21 as stated: a document status update, on either route, by an
\* authenticated caller whose role is user (on the documents route: of an
\* existing document, to a status the route's validator admits) is answered
\* 403, leaves every document's status as it was and inserts no
\* notification.
C21_Original ==
  [][(/\ role(resp'.caller) = "user"
      /\ \/ resp'.op = "adminDocStatus"
         \/ /\ resp'.op = "docStatus"
            /\ resp'.arg.id \in DOMAIN documents
            /\ resp'.arg.status \in DocStatusValid)
     => /\ resp'.code = 403
        /\ documents' = documents
        /\ notifications' = notifications
    ]_vars

\* C22 as stated: a document status update answered 200 that sets approved
\* has inserted exactly one notification, of type document_approved, for the
\* document's owner, and one that sets rejected exactly one of type
\* document_rejected, on both routes.
C22_Original ==
  (/\ resp.op \in DocOps
   /\ resp.code = 200
   /\ resp.arg.status \in {"approved", "rejected"})
  => /\ Len(resp.created) = 1
     /\ resp.created[1].userId = documents[resp.arg.id].userId
     /\ resp.created[1].type =
          IF resp.arg.status = "approved" THEN "document_approved"
          ELSE "document_rejected"

StatusUpdates(rows) ==
  {i \in DOMAIN rows : rows[i].type = "application_status_update"}

\* C24 as stated: when two admin status sets of application 1 overlap (both
\* have read, both have written) and one of them is answered, it is answered
\* 200, it has inserted exactly one application_status_update notification,
\* and the application's status is the target of one of the two.
C24_Original ==
  [][(/\ BagCardinality(inflight) = 2
      /\ \A p \in BagToSet(inflight) : p.app = 1 /\ p.pc = "notify"
      /\ BagCardinality(inflight') = 1)
     => /\ resp'.op = "adminStatus"
        /\ resp'.code = 200
        /\ Cardinality(StatusUpdates(resp'.created)) = 1
        /\ applications'[1].status \in {p.status : p \in BagToSet(inflight)}
    ]_vars

NotifyingOps ==
  {"submit", "adminStatus", "assign", "sendCost", "schedule", "docStatus",
   "adminDocStatus"}

\* C26 as stated: every notification a workflow request creates (submit,
\* admin status set with its farewell, assign officer, send-cost-estimation,
\* schedule biometrics, document status update) has a type of the
\* Notification type enum, so no create is refused for its type.
C26_Original ==
  resp.op \in NotifyingOps => resp.err # "notify_error"

\* C27 as stated: in every reachable state every application's status is
\* one of the ten values declared on the Application entity.
C27_Original ==
  \A a \in DOMAIN applications : applications[a].status \in VALID_STATUSES

\* C28 as stated: applicationNumber is immutable after creation; no step
\* changes the applicationNumber of a stored application.
C28_Original ==
  [][\A a \in DOMAIN applications :
       applications'[a].applicationNumber = applications[a].applicationNumber]_vars

\* The numbers the server generates.
GeneratedNumbers == {ApplicationNumber(now, r) : now \in Times, r \in Rands}

\* C29 as stated: every successful create, whatever the body beside a valid
\* visaType, yields an application whose status is draft, whose userId is
\* the caller and whose applicationNumber is the generated one.
C29_Original ==
  (resp.op = "create" /\ resp.code = 201)
  => /\ applications[resp.app].status = "draft"
     /\ applications[resp.app].userId = resp.caller
     /\ applications[resp.app].applicationNumber \in GeneratedNumbers

\* The fee attributes of an application.
FeeFields ==
  {"processingFee", "biometricsFee", "serviceFee", "courierFee", "totalCost"}

\* C30 as stated: whatever requests callers with role user issue (create,
\* update-fields, submit, cancel, create payment, upload document), every
\* application's status stays within draft, submitted and cancelled, and its
\* fee fields stay as they were at creation.
C30_Original ==
  \A a \in DOMAIN applications :
    /\ applications[a].status \in {"draft", "submitted", "cancelled"}
    /\ \A f \in FeeFields : applications[a][f] = NewApplication[f]

====
